---- MODULE Spec2Model ----
(***************************************************************************)
(* Model of the tictactrip-justify-api service: the text justification     *)
(* algorithm (justify/algorithm.ts), the sliding-window rate limiter       *)
(* (rate-limit/limiter.ts), the justify request flow that composes them   *)
(* (api/justify.ts), the token store (auth/token-store.ts) and the token   *)
(* generator (auth/token-generator.ts).                                    *)
(*                                                                         *)
(* Strings are sequences of one-character strings, so that lengths, the    *)
(* tokenizer and the padding are computed as the code computes them.       *)
(***************************************************************************)
EXTENDS Integers, Sequences, FiniteSets, TLC

VARIABLES
  text,       \* justifyText: the input text
  lineWidth,  \* justifyText: the requested width
  result,     \* justifyText: what the call produced
  jpc,        \* justifyText: "input" before the call, "done" after
  usage,      \* RateLimiter.usage: token -> list of usage records
  now,        \* the wall clock read by new Date()
  res,        \* RateLimiter: the last operation and what it returned
  reqs,       \* the justify requests in flight: request -> its position and data
  hist,       \* per token, the last successful consumeWords and the one before it
  tokens,     \* TokenStore.tokens: token -> stored record
  emailToTokens,  \* TokenStore.emailToTokens: email -> its tokens, in insertion order
  tres,       \* TokenStore: the last operation and what it returned
  issued,     \* the tokens handed out by generateSecureToken, in order
  fres,       \* TokenGenerator: the last validateTokenFormat call and its answer
  unswept,    \* RateLimiter: the usage map and the last answer had no cleanup ever run
  bus         \* EventBus: handlers, onceHandlers and the calls of the last operation

jvars == <<text, lineWidth, result, jpc>>
lvars == <<usage, now, res>>
tvars == <<tokens, emailToTokens, tres>>
ivars == <<issued, fres>>
ovars == <<unswept, bus>>
avars == <<hist, tokens, emailToTokens, tres, issued, fres, unswept, bus>>
vars == <<text, lineWidth, result, jpc, usage, now, res, reqs, hist, tokens,
          emailToTokens, tres, issued, fres, unswept, bus>>

----------------------------------------------------------------------------
(* Bounds of the model                                                     *)

MaxLen == 7          \* longest input text, in characters
MaxWidth == 6        \* largest line width tried
MaxTime == 3         \* the clock stops advancing here
MaxRecords == 2      \* most usage records the limiter holds at once
MaxWords == 2        \* largest word count of one limiter call (0 and 1 are tried too)
dailyLimit == 3      \* RateLimiter.dailyLimit, scaled down from 80000
windowSizeMs == 2    \* RateLimiter.windowSizeMs, scaled down from 24 h
maxTextLength == 100000  \* textValidator.maxLength
justifyWidth == 80   \* the width performJustification passes to justifyText

Alphabet == {"a", " ", "\n"}
Whitespace == {" ", "\n", "\t"}

Tokens == {"t1", "t2"}
WordCounts == {0, 1, MaxWords}
Times == 0..MaxTime

Reqs == {"r1", "r2"}
ReqTexts == {<<>>, <<" ">>, <<"a">>, <<"a", " ", "a">>, <<"a", " ", "a", "\n", "a">>}

Texts == UNION {[1..n -> Alphabet] : n \in 0..MaxLen}
Widths == -1..MaxWidth

----------------------------------------------------------------------------
(* String helpers (JavaScript String / Array built-ins)                    *)

Max(a, b) == IF a >= b THEN a ELSE b

IsSpace(c) == c \in Whitespace

RECURSIVE SumLen(_)
SumLen(ws) == IF ws = <<>> THEN 0 ELSE Len(Head(ws)) + SumLen(Tail(ws))

\* ' '.repeat(n) for n >= 0 (a negative count throws a RangeError, see justifyThrows)
RECURSIVE repeat(_, _)
repeat(c, n) == IF n <= 0 THEN <<>> ELSE <<c>> \o repeat(c, n - 1)

\* Array.prototype.join on an array of strings
RECURSIVE join(_, _)
join(ws, sep) ==
  IF ws = <<>> THEN <<>>
  ELSE IF Len(ws) = 1 THEN Head(ws)
  ELSE Head(ws) \o sep \o join(Tail(ws), sep)

\* String.prototype.trim
RECURSIVE trimStart(_)
trimStart(s) == IF s # <<>> /\ IsSpace(Head(s)) THEN trimStart(Tail(s)) ELSE s

RECURSIVE trimEnd(_)
trimEnd(s) ==
  IF s # <<>> /\ IsSpace(s[Len(s)]) THEN trimEnd(SubSeq(s, 1, Len(s) - 1)) ELSE s

trim(s) == trimEnd(trimStart(s))

\* String.prototype.split(/\s+/): every maximal run of whitespace separates two
\* fields; the empty string gives one empty field
RECURSIVE splitFrom(_, _, _, _)
splitFrom(s, i, cur, acc) ==
  IF i > Len(s) THEN Append(acc, cur)
  ELSE IF IsSpace(s[i])
       THEN IF i > 1 /\ IsSpace(s[i - 1])
            THEN splitFrom(s, i + 1, cur, acc)
            ELSE splitFrom(s, i + 1, <<>>, Append(acc, cur))
       ELSE splitFrom(s, i + 1, Append(cur, s[i]), acc)

split(s) == splitFrom(s, 1, <<>>, <<>>)

\* String.prototype.split('\n'): every line break separates two fields
RECURSIVE splitLinesFrom(_, _, _, _)
splitLinesFrom(s, i, cur, acc) ==
  IF i > Len(s) THEN Append(acc, cur)
  ELSE IF s[i] = "\n"
       THEN splitLinesFrom(s, i + 1, <<>>, Append(acc, cur))
       ELSE splitLinesFrom(s, i + 1, Append(cur, s[i]), acc)

splitLines(s) == splitLinesFrom(s, 1, <<>>, <<>>)

\* the remainder operator of JavaScript: the sign of the dividend
JsRem(a, b) == IF a >= 0 THEN a % b ELSE 0 - ((0 - a) % b)

----------------------------------------------------------------------------
(* justify/algorithm.ts                                                    *)

\* mutant: a word that would fill the line exactly starts a new line
groupStepStrict(st, word, w) ==
  LET spaceNeeded == IF Len(st.currentLine) > 0 THEN 1 ELSE 0
      newLength == st.currentLength + spaceNeeded + Len(word)
  IN IF newLength < w
     THEN [st EXCEPT !.currentLine = Append(@, word), !.currentLength = newLength]
     ELSE [lines |-> IF Len(st.currentLine) > 0
                     THEN Append(st.lines, st.currentLine) ELSE st.lines,
           currentLine |-> <<word>>,
           currentLength |-> Len(word)]

\* the loop of groupWordsIntoLines: st = [lines, currentLine, currentLength]
groupStep(st, word, w) ==
  LET spaceNeeded == IF Len(st.currentLine) > 0 THEN 1 ELSE 0
      newLength == st.currentLength + spaceNeeded + Len(word)
  IN IF newLength <= w
     THEN [st EXCEPT !.currentLine = Append(@, word), !.currentLength = newLength]
     ELSE [lines |-> IF Len(st.currentLine) > 0
                     THEN Append(st.lines, st.currentLine) ELSE st.lines,
           currentLine |-> <<word>>,
           currentLength |-> Len(word)]

RECURSIVE groupLoop(_, _, _)
groupLoop(st, words, w) ==
  IF words = <<>> THEN st ELSE groupLoop(groupStep(st, Head(words), w), Tail(words), w)

\* mutant: the line being filled when the words run out is not pushed
groupWordsIntoLinesNoFlush(words, w) ==
  groupLoop([lines |-> <<>>, currentLine |-> <<>>, currentLength |-> 0], words, w).lines

groupWordsIntoLines(words, w) ==
  LET st == groupLoop([lines |-> <<>>, currentLine |-> <<>>, currentLength |-> 0],
                      words, w)
  IN IF Len(st.currentLine) > 0 THEN Append(st.lines, st.currentLine) ELSE st.lines

\* mutant: the last line is joined but not padded
justifyLastLineNoPad(words, w) == join(words, <<" ">>)

justifyLastLine(words, w) ==
  LET line == join(words, <<" ">>)
      spacesToAdd == w - Len(line)
  IN line \o repeat(" ", Max(0, spacesToAdd))

\* mutant: the remainder of the division is not handed out
spacesAfterNoExtra(words, w, i) == (w - SumLen(words)) \div (Len(words) - 1)

\* mutant: the extra spaces go to the rightmost gaps
spacesAfterExtraRight(words, w, i) ==
  LET totalSpaces == w - SumLen(words)
      gaps == Len(words) - 1
      baseSpaces == totalSpaces \div gaps
      extraSpaces == JsRem(totalSpaces, gaps)
  IN baseSpaces + (IF gaps - i < extraSpaces THEN 1 ELSE 0)

\* the number of spaces justifyLine puts after word i of the line
spacesAfter(words, w, i) ==
  LET totalSpaces == w - SumLen(words)
      gaps == Len(words) - 1
      baseSpaces == totalSpaces \div gaps
      extraSpaces == JsRem(totalSpaces, gaps)
  IN baseSpaces + (IF i - 1 < extraSpaces THEN 1 ELSE 0)

RECURSIVE justifyLineFrom(_, _, _)
justifyLineFrom(words, w, i) ==
  IF i > Len(words) THEN <<>>
  ELSE words[i]
       \o (IF i < Len(words) THEN repeat(" ", spacesAfter(words, w, i)) ELSE <<>>)
       \o justifyLineFrom(words, w, i + 1)

justifyLine(words, w) ==
  IF Len(words) = 1 THEN justifyLastLine(words, w) ELSE justifyLineFrom(words, w, 1)

\* ' '.repeat(spacesToAdd) throws a RangeError on a negative count
justifyLineThrows(words, w) ==
  /\ Len(words) > 1
  /\ \E i \in 1..(Len(words) - 1) : spacesAfter(words, w, i) < 0

justifiedLines(lines, w) ==
  [i \in 1..Len(lines) |->
     IF i = Len(lines) THEN justifyLastLine(lines[i], w) ELSE justifyLine(lines[i], w)]

justifyThrows(t, w) ==
  LET lines == groupWordsIntoLines(split(trim(t)), w)
  IN \E i \in 1..(Len(lines) - 1) : justifyLineThrows(lines[i], w)

\* mutant: the lines are joined without the newline between them
justifyTextJoined(t, w) ==
  LET words == split(trim(t))
      lines == groupWordsIntoLines(words, w)
  IN join(justifiedLines(lines, w), <<>>)

justifyText(t, w) ==
  LET words == split(trim(t))
      lines == groupWordsIntoLines(words, w)
  IN join(justifiedLines(lines, w), <<"\n">>)

----------------------------------------------------------------------------
(* One call of justifyText                                                 *)

JInit ==
  /\ text \in Texts
  /\ lineWidth \in Widths
  /\ result = [kind |-> "none", value |-> <<>>]
  /\ jpc = "input"

JIdle ==
  /\ text = <<>>
  /\ lineWidth = 0
  /\ result = [kind |-> "none", value |-> <<>>]
  /\ jpc = "idle"

Justify ==
  /\ jpc = "input"
  /\ jpc' = "done"
  /\ result' = IF justifyThrows(text, lineWidth)
               THEN [kind |-> "error", value |-> <<>>]
               ELSE [kind |-> "ok", value |-> justifyText(text, lineWidth)]
  /\ UNCHANGED <<text, lineWidth>>

\* a second call of justifyText, on what the first call returned
JustifyAgain ==
  /\ jpc = "done" /\ result.kind = "ok"
  /\ jpc' = "again"
  /\ text' = result.value
  /\ result' = IF justifyThrows(result.value, lineWidth)
               THEN [kind |-> "error", value |-> <<>>]
               ELSE [kind |-> "ok", value |-> justifyText(result.value, lineWidth)]
  /\ UNCHANGED lineWidth

----------------------------------------------------------------------------
(* rate-limit/limiter.ts: class RateLimiter                                *)
(* The usage map is a function whose domain is the set of keys of the Map; *)
(* every operation is an operator from the map (and the clock values it    *)
(* reads) to the map it leaves and the value it returns.                   *)

\* mutant: the reduce keeps the last record's count instead of the running sum
sumWordsLast(records) ==
  IF records = <<>> THEN 0 ELSE records[Len(records)].wordCount

EmptyUsage == [k \in {} |-> <<>>]

RECURSIVE sumWords(_)
sumWords(records) ==
  IF records = <<>> THEN 0 ELSE Head(records).wordCount + sumWords(Tail(records))

\* this.usage.get(token) || []
recordsOf(u, token) == IF token \in DOMAIN u THEN u[token] ELSE <<>>

\* mutant: a record exactly one window old still counts
getValidRecordsInclusive(u, token, t) ==
  LET cutoffTime == t - windowSizeMs
  IN SelectSeq(recordsOf(u, token), LAMBDA record : record.timestamp >= cutoffTime)

getValidRecords(u, token, t) ==
  LET cutoffTime == t - windowSizeMs
  IN SelectSeq(recordsOf(u, token), LAMBDA record : record.timestamp > cutoffTime)

RECURSIVE oldestOf(_, _)
oldestOf(oldest, records) ==
  IF records = <<>> THEN oldest
  ELSE oldestOf(IF Head(records).timestamp < oldest.timestamp THEN Head(records)
                ELSE oldest,
                Tail(records))

\* mutant: the reset time is always counted from the moment of the call
getNextResetTimeFromNow(records, t) == t + windowSizeMs

getNextResetTime(records, t) ==
  IF Len(records) = 0 THEN t + windowSizeMs
  ELSE oldestOf(Head(records), Tail(records)).timestamp + windowSizeMs

\* mutant: a request that would use the budget up exactly is refused
checkLimitStrict(u, token, wordCount, t) ==
  LET records == getValidRecords(u, token, t)
      currentUsage == sumWords(records)
      limitResult == [allowed |-> currentUsage + wordCount < dailyLimit,
                      remainingWords |-> Max(0, dailyLimit - currentUsage),
                      resetAt |-> getNextResetTime(records, t),
                      currentUsage |-> currentUsage]
  IN [usage |-> u,
      out |-> IF ~limitResult.allowed
              THEN [success |-> FALSE,
                    error |-> [message |-> "Rate limit exceeded",
                               dailyLimit |-> dailyLimit,
                               currentUsage |-> currentUsage,
                               requested |-> wordCount,
                               resetAt |-> limitResult.resetAt]]
              ELSE [success |-> TRUE, data |-> limitResult]]

checkLimit(u, token, wordCount, t) ==
  LET records == getValidRecords(u, token, t)
      currentUsage == sumWords(records)
      remainingWords == Max(0, dailyLimit - currentUsage)
      resetAt == getNextResetTime(records, t)
      limitResult == [allowed |-> currentUsage + wordCount <= dailyLimit,
                      remainingWords |-> remainingWords,
                      resetAt |-> resetAt,
                      currentUsage |-> currentUsage]
  IN [usage |-> u,
      out |-> IF ~limitResult.allowed
              THEN [success |-> FALSE,
                    error |-> [message |-> "Rate limit exceeded",
                               dailyLimit |-> dailyLimit,
                               currentUsage |-> currentUsage,
                               requested |-> wordCount,
                               resetAt |-> resetAt]]
              ELSE [success |-> TRUE, data |-> limitResult]]

\* mutant: a sample that would take the token over the limit is rejected
recordUsageEnforcing(u, token, wordCount, t) ==
  IF sumWords(getValidRecords(u, token, t)) + wordCount > dailyLimit
  THEN [usage |-> u, out |-> [success |-> FALSE]]
  ELSE [usage |-> [k \in DOMAIN u \cup {token} |->
                     Append(recordsOf(u, k),
                            [wordCount |-> wordCount, timestamp |-> t,
                             resetAt |-> t + windowSizeMs])],
        out |-> [success |-> TRUE]]

recordUsage(u, token, wordCount, t) ==
  LET record == [wordCount |-> wordCount, timestamp |-> t, resetAt |-> t + windowSizeMs]
      withKey == IF token \in DOMAIN u THEN u ELSE u @@ (token :> <<>>)
  IN [usage |-> [withKey EXCEPT ![token] = Append(@, record)],
      out |-> [success |-> TRUE]]

\* mutant: the usage is recorded before the limit is checked
consumeWordsRecordFirst(u, token, wordCount, t1, t2, t3) ==
  LET recordResult == recordUsage(u, token, wordCount, t2)
      checkResult == checkLimit(recordResult.usage, token, 0, t3)
  IN [usage |-> recordResult.usage, out |-> checkResult.out]

\* mutant: the result of the first check is returned, not a recomputed one
consumeWordsStale(u, token, wordCount, t1, t2, t3) ==
  LET checkResult == checkLimit(u, token, wordCount, t1)
  IN IF ~checkResult.out.success THEN checkResult
     ELSE [usage |-> recordUsage(checkResult.usage, token, wordCount, t2).usage,
           out |-> [success |-> TRUE, data |-> checkResult.out.data]]

\* t1, t2, t3: the clock as read by the first check, the recording and the second check
consumeWords(u, token, wordCount, t1, t2, t3) ==
  LET checkResult == checkLimit(u, token, wordCount, t1)
  IN IF ~checkResult.out.success THEN checkResult
     ELSE IF ~checkResult.out.data.allowed
     THEN [usage |-> checkResult.usage,
           out |-> [success |-> FALSE,
                    error |-> [message |-> "Rate limit would be exceeded"]]]
     ELSE LET recordResult == recordUsage(checkResult.usage, token, wordCount, t2)
              updatedCheck == checkLimit(recordResult.usage, token, 0, t3)
          IN IF ~recordResult.out.success
             THEN [usage |-> recordResult.usage,
                   out |-> [success |-> FALSE, error |-> recordResult.out.error]]
             ELSE IF ~updatedCheck.out.success THEN updatedCheck
             ELSE [usage |-> updatedCheck.usage,
                   out |-> [success |-> TRUE, data |-> updatedCheck.out.data]]

getUsageStats(u, token, t) ==
  LET records == getValidRecords(u, token, t)
  IN [usage |-> u,
      out |-> [totalWords |-> sumWords(records),
               recordCount |-> Len(records),
               oldestRecord |-> IF Len(records) > 0
                                THEN oldestOf(Head(records), Tail(records)).timestamp
                                ELSE -1]]

\* mutant: the whole usage map is cleared
resetUsageAll(u, token) ==
  [usage |-> EmptyUsage, out |-> token \in DOMAIN u]

resetUsage(u, token) ==
  [usage |-> [k \in DOMAIN u \ {token} |-> u[k]],
   out |-> token \in DOMAIN u]

\* mutant: a token left with no valid record keeps its entry
cleanupOldRecordsKeepEmpty(u, t) ==
  [usage |-> [k \in DOMAIN u |-> getValidRecords(u, k, t)], out |-> TRUE]

\* mutant: a token with an expired record loses all its records
cleanupOldRecordsWholeToken(u, t) ==
  [usage |-> [k \in {token \in DOMAIN u :
                       Len(getValidRecords(u, token, t)) = Len(u[token])}
                |-> u[k]],
   out |-> TRUE]

cleanupOldRecords(u, t) ==
  [usage |-> [k \in {token \in DOMAIN u : Len(getValidRecords(u, token, t)) # 0}
                |-> getValidRecords(u, k, t)],
   out |-> TRUE]

----------------------------------------------------------------------------
(* The limiter driven by its callers and by the clock                      *)

NoCall == [op |-> "none"]

RECURSIVE totalRecords(_)
totalRecords(u) ==
  IF DOMAIN u = {} THEN 0
  ELSE LET k == CHOOSE k \in DOMAIN u : TRUE
       IN Len(u[k]) + totalRecords([j \in DOMAIN u \ {k} |-> u[j]])

\* what a call leaves behind: the operation, its arguments, the clock it started
\* at (and its later readings t2, t3), the usage map it found and the value it
\* returned
Call(op, token, wordCount, before, r, t2, t3) ==
  [op |-> op, token |-> token, wordCount |-> wordCount, at |-> now, t2 |-> t2,
   t3 |-> t3, before |-> before, out |-> r.out]

\* a later reading of the clock within one synchronous call: the same value or
\* the next one
Later(t) == {t2 \in {t, t + 1} : t2 <= MaxTime}


LInit ==
  /\ usage = EmptyUsage
  /\ now = 0
  /\ res = NoCall

Tick ==
  /\ now < MaxTime
  /\ now' = now + 1
  /\ UNCHANGED <<usage, res>>

CheckLimit ==
  \E token \in Tokens, n \in WordCounts :
    LET r == checkLimit(usage, token, n, now)
    IN /\ usage' = r.usage
       /\ res' = Call("checkLimit", token, n, usage, r, now, now)
       /\ UNCHANGED now

RecordUsage ==
  \E token \in Tokens, n \in WordCounts :
    LET r == recordUsage(usage, token, n, now)
    IN /\ totalRecords(r.usage) <= MaxRecords
       /\ usage' = r.usage
       /\ res' = Call("recordUsage", token, n, usage, r, now, now)
       /\ UNCHANGED now

ConsumeWords ==
  \E token \in Tokens, n \in WordCounts :
    \E t2 \in Later(now) : \E t3 \in Later(t2) :
      LET r == consumeWords(usage, token, n, now, t2, t3)
      IN /\ totalRecords(r.usage) <= MaxRecords
         /\ usage' = r.usage
         /\ res' = Call("consumeWords", token, n, usage, r, t2, t3)
         /\ now' = t3

GetUsageStats ==
  \E token \in Tokens :
    LET r == getUsageStats(usage, token, now)
    IN /\ usage' = r.usage
       /\ res' = Call("getUsageStats", token, 0, usage, r, now, now)
       /\ UNCHANGED now

ResetUsage ==
  \E token \in Tokens :
    LET r == resetUsage(usage, token)
    IN /\ usage' = r.usage
       /\ res' = Call("resetUsage", token, 0, usage, r, now, now)
       /\ UNCHANGED now

CleanupOldRecords ==
  LET r == cleanupOldRecords(usage, now)
  IN /\ usage' = r.usage
     /\ res' = Call("cleanupOldRecords", "", 0, usage, r, now, now)
     /\ UNCHANGED now

\* the same calls made on a limiter whose cleanup never runs: each action below
\* repeats on unswept.usage the call the limiter just served, with the same
\* arguments and the same readings of the clock
UInit == unswept = [usage |-> EmptyUsage, out |-> NoCall]

Unswept(r) == [usage |-> r.usage, out |-> r.out]

CheckLimitBoth ==
  /\ CheckLimit
  /\ unswept' = Unswept(checkLimit(unswept.usage, res'.token, res'.wordCount, res'.at))

RecordUsageBoth ==
  /\ RecordUsage
  /\ unswept' = Unswept(recordUsage(unswept.usage, res'.token, res'.wordCount, res'.at))
  /\ totalRecords(unswept'.usage) <= MaxRecords

GetUsageStatsBoth ==
  /\ GetUsageStats
  /\ unswept' = Unswept(getUsageStats(unswept.usage, res'.token, res'.at))

ResetUsageBoth ==
  /\ ResetUsage
  /\ unswept' = Unswept(resetUsage(unswept.usage, res'.token))

\* the cleanup runs on the limiter only
CleanupOldRecordsOnce ==
  /\ CleanupOldRecords
  /\ UNCHANGED unswept

LIdle ==
  /\ usage = EmptyUsage
  /\ now = 0
  /\ res = NoCall

----------------------------------------------------------------------------
(* api/justify.ts: the POST /api/justify handler                           *)
(* The handler runs in three synchronous pieces separated by awaits: the   *)
(* pipeline up to checkRateLimit, the continuation that justifies and      *)
(* records, and the code that writes the response. Pieces of different     *)
(* requests interleave.                                                    *)

Success(data) == [success |-> TRUE, data |-> data]
Failure(message) == [success |-> FALSE, error |-> message]

\* the failure of checkLimit passed on: error is the head of its message, detail
\* the figures the message spells out (limit, current usage, requested, reset)
Refusal(error) == [success |-> FALSE, error |-> error.message, detail |-> error]

\* textValidator.validateFast: required, minLength(1), maxLength(100000)
validateJustifyRequest(request) ==
  IF request.text = <<>> THEN Failure("Text is required")
  ELSE IF Len(request.text) < 1 THEN Failure("Text cannot be empty")
  ELSE IF Len(request.text) > maxTextLength THEN Failure("Text too long")
  ELSE Success(request)

\* mutant: the empty strings that split leaves are counted as words
wordCountOfNoFilter(t) == Len(split(trim(t)))

wordCountOf(t) == Len(SelectSeq(split(trim(t)), LAMBDA word : Len(word) > 0))

countWords(request) ==
  Success([text |-> request.text, token |-> request.token,
           wordCount |-> wordCountOf(request.text)])

checkRateLimit(u, data, t) ==
  LET limitResult == checkLimit(u, data.token, data.wordCount, t).out
  IN IF ~limitResult.success THEN Refusal(limitResult.error)
     ELSE IF ~limitResult.data.allowed
     THEN [success |-> FALSE, error |-> "Rate limit exceeded",
           detail |-> [dailyLimit |-> dailyLimit, resetAt |-> limitResult.data.resetAt]]
     ELSE Success(data)

\* Pipeline.from(requestData).pipe(validateJustifyRequest).pipe(countWords)
\*   .pipeAsync(checkRateLimit)
pipeline(u, request, t) ==
  LET validated == validateJustifyRequest(request)
      counted == IF validated.success THEN countWords(validated.data) ELSE validated
  IN IF counted.success THEN checkRateLimit(u, counted.data, t) ELSE counted

performJustification(data) ==
  IF justifyThrows(data.text, justifyWidth) THEN Failure("Invalid count value")
  ELSE Success([text |-> data.text, token |-> data.token, wordCount |-> data.wordCount,
                justifiedText |-> justifyText(data.text, justifyWidth)])

\* recordUsage of api/justify.ts: rateLimiter.recordUsage, then checkLimit(token, 0)
recordUsageStep(u, data, t, t2) ==
  LET recordResult == recordUsage(u, data.token, data.wordCount, t)
      statsResult == checkLimit(recordResult.usage, data.token, 0, t2).out
  IN [usage |-> recordResult.usage,
      out |-> IF ~recordResult.out.success THEN Failure("Failed to record usage")
              ELSE IF ~statsResult.success THEN Refusal(statsResult.error)
              ELSE Success([justifiedText |-> data.justifiedText,
                            wordsUsed |-> data.wordCount,
                            remainingWords |-> statsResult.data.remainingWords,
                            resetAt |-> statsResult.data.resetAt])]

\* mutant: the usage is recorded before the result of the check is looked at
continuationRecordFirst(u, checkResult, t, t2) ==
  IF ~checkResult.success
  THEN [usage |-> recordUsage(u, "t1", 1, t).usage, out |-> checkResult]
  ELSE LET justifyResult == performJustification(checkResult.data)
       IN IF ~justifyResult.success THEN [usage |-> u, out |-> justifyResult]
          ELSE recordUsageStep(u, justifyResult.data, t, t2)

\* the continuation passed to then(): justify, then record
continuation(u, checkResult, t, t2) ==
  IF ~checkResult.success THEN [usage |-> u, out |-> checkResult]
  ELSE LET justifyResult == performJustification(checkResult.data)
       IN IF ~justifyResult.success THEN [usage |-> u, out |-> justifyResult]
          ELSE recordUsageStep(u, justifyResult.data, t, t2)

\* mutant: every failure is answered 400
statusOfAlways400(r) == IF r.success THEN 200 ELSE 400

\* result.error.includes('Rate limit exceeded')
statusOf(r) ==
  IF r.success THEN 200
  ELSE IF r.error = "Rate limit exceeded" THEN 402
  ELSE 400

RInit ==
  reqs \in [Reqs -> {[pc |-> "start", token |-> tk, text |-> t,
                      out |-> Failure("pending"), status |-> 0]
                     : tk \in Tokens, t \in ReqTexts}]

RIdle ==
  reqs = [r \in Reqs |-> [pc |-> "idle", token |-> "", text |-> <<>>,
                          out |-> Failure("pending"), status |-> 0]]

ReqCheck(r) ==
  /\ reqs[r].pc = "start"
  /\ reqs' = [reqs EXCEPT ![r].pc = "checked",
                          ![r].out = pipeline(usage, [text |-> reqs[r].text,
                                                      token |-> reqs[r].token], now)]
  /\ UNCHANGED <<usage, now, res>>

ReqRecord(r) ==
  /\ reqs[r].pc = "checked"
  /\ \E t2 \in Later(now) :
       LET c == continuation(usage, reqs[r].out, now, t2)
       IN /\ usage' = c.usage
          /\ now' = t2
          /\ reqs' = [reqs EXCEPT ![r].pc = "recorded", ![r].out = c.out]
  /\ UNCHANGED res

ReqRespond(r) ==
  /\ reqs[r].pc = "recorded"
  /\ reqs' = [reqs EXCEPT ![r].pc = "done", ![r].status = statusOf(reqs[r].out)]
  /\ UNCHANGED <<usage, now, res>>

----------------------------------------------------------------------------
(* rate-limit/limiter.ts: successive consumeWords calls on one token       *)

NoHistory == [calls |-> 0, remainingWords |-> dailyLimit, prevRemaining |-> dailyLimit,
              t3 |-> 0]

HInit == hist = [token \in Tokens |-> NoHistory]

\* consumeWords, remembering for its token what the successful call returned
ConsumeWordsInSequence ==
  /\ ConsumeWords
  /\ hist' = IF res'.out.success
             THEN [hist EXCEPT ![res'.token] =
                     [calls |-> @.calls + 1,
                      remainingWords |-> res'.out.data.remainingWords,
                      prevRemaining |-> @.remainingWords,
                      t3 |-> res'.t3]]
             ELSE hist

----------------------------------------------------------------------------
(* auth/token-store.ts: class TokenStore                                   *)
(* tokens is a function whose domain is the key set of the Map; a Set of   *)
(* emailToTokens is the sequence of its members in insertion order, which  *)
(* is the order a for...of loop visits them in.                            *)

tokenTTL == 2            \* TokenStore.tokenTTL, scaled down from 24 h
maxTokensPerEmail == 2   \* TokenStore.maxTokensPerEmail, scaled down from 5

TokenIds == {"k1", "k2"}
ManyTokenIds == {"k1", "k2", "k3"}   \* more tokens than one email may hold
Emails == {"e1", "e2"}
NoToken == "null"
NoRecord == [email |-> "", createdAt |-> -1, lastUsed |-> -1, isValid |-> FALSE]

Range(s) == {s[i] : i \in 1..Len(s)}
SetAdd(s, x) == IF x \in Range(s) THEN s ELSE Append(s, x)
SetDelete(s, x) == SelectSeq(s, LAMBDA y : y # x)

MapSet(m, k, v) == [j \in DOMAIN m \cup {k} |-> IF j = k THEN v ELSE m[j]]
MapDelete(m, k) == [j \in DOMAIN m \ {k} |-> m[j]]

\* mutant: a token is expired from the moment its age reaches the TTL
isExpiredAtTTL(stored, t) == t - stored.createdAt >= tokenTTL

isExpired(stored, t) ==
  LET tokenAge == t - stored.createdAt
  IN tokenAge > tokenTTL

\* mutant: the email entry is kept when its set becomes empty
removeFromIndexKeepKey(idx, email, token) ==
  IF email \notin DOMAIN idx THEN idx
  ELSE [idx EXCEPT ![email] = SetDelete(idx[email], token)]

\* emailTokens.delete(token), and the email entry with it when the set is empty
removeFromIndex(idx, email, token) ==
  IF email \notin DOMAIN idx THEN idx
  ELSE LET emailTokens == SetDelete(idx[email], token)
       IN IF Len(emailTokens) = 0 THEN MapDelete(idx, email)
          ELSE [idx EXCEPT ![email] = emailTokens]

\* mutant: the token is marked invalid and left in the index
revokeKeepIndex(tk, idx, token) ==
  IF token \notin DOMAIN tk THEN [tokens |-> tk, index |-> idx, out |-> FALSE]
  ELSE [tokens |-> [tk EXCEPT ![token].isValid = FALSE], index |-> idx, out |-> TRUE]

revoke(tk, idx, token) ==
  IF token \notin DOMAIN tk THEN [tokens |-> tk, index |-> idx, out |-> FALSE]
  ELSE [tokens |-> [tk EXCEPT ![token].isValid = FALSE],
        index |-> removeFromIndex(idx, tk[token].email, token),
        out |-> TRUE]

RECURSIVE findOldestFrom(_, _, _, _)
findOldestFrom(tk, rest, oldestToken, oldestDate) ==
  IF rest = <<>> THEN oldestToken
  ELSE LET token == Head(rest)
       IN IF token \in DOMAIN tk /\ tk[token].createdAt < oldestDate
          THEN findOldestFrom(tk, Tail(rest), token, tk[token].createdAt)
          ELSE findOldestFrom(tk, Tail(rest), oldestToken, oldestDate)

findOldestTokenForEmail(tk, idx, email, t) ==
  IF email \notin DOMAIN idx \/ Len(idx[email]) = 0 THEN NoToken
  ELSE findOldestFrom(tk, idx[email], NoToken, t)

\* t1, t2: the clock as read by findOldestTokenForEmail and by store itself
store(tk, idx, token, email, t1, t2) ==
  LET existingTokens == IF email \in DOMAIN idx THEN idx[email] ELSE <<>>
      oldestToken == findOldestTokenForEmail(tk, idx, email, t1)
      evicted == IF Len(existingTokens) >= maxTokensPerEmail /\ oldestToken # NoToken
                 THEN revoke(tk, idx, oldestToken)
                 ELSE [tokens |-> tk, index |-> idx, out |-> FALSE]
      storedToken == [email |-> email, createdAt |-> t2, lastUsed |-> t2,
                      isValid |-> TRUE]
      withEmail == IF email \in DOMAIN evicted.index THEN evicted.index
                   ELSE MapSet(evicted.index, email, <<>>)
  IN [tokens |-> MapSet(evicted.tokens, token, storedToken),
      index |-> [withEmail EXCEPT ![email] = SetAdd(@, token)],
      out |-> [success |-> TRUE]]

\* mutant: an expired token is reported as expired but left as it is
retrieveNoRevoke(tk, idx, token, t1, t2) ==
  IF token \notin DOMAIN tk
  THEN [tokens |-> tk, index |-> idx, out |-> Failure("Token not found")]
  ELSE IF ~tk[token].isValid
  THEN [tokens |-> tk, index |-> idx, out |-> Failure("Token is invalid")]
  ELSE IF isExpired(tk[token], t1)
  THEN [tokens |-> tk, index |-> idx, out |-> Failure("Token has expired")]
  ELSE LET stored == [tk[token] EXCEPT !.lastUsed = t2]
       IN [tokens |-> [tk EXCEPT ![token] = stored], index |-> idx,
           out |-> Success(stored)]

\* t1, t2: the clock as read by isExpired and by the update of lastUsed
retrieve(tk, idx, token, t1, t2) ==
  IF token \notin DOMAIN tk
  THEN [tokens |-> tk, index |-> idx, out |-> Failure("Token not found")]
  ELSE IF ~tk[token].isValid
  THEN [tokens |-> tk, index |-> idx, out |-> Failure("Token is invalid")]
  ELSE IF isExpired(tk[token], t1)
  THEN LET r == revoke(tk, idx, token)
       IN [tokens |-> r.tokens, index |-> r.index, out |-> Failure("Token has expired")]
  ELSE LET stored == [tk[token] EXCEPT !.lastUsed = t2]
       IN [tokens |-> [tk EXCEPT ![token] = stored], index |-> idx,
           out |-> Success(stored)]

RECURSIVE revokeEach(_, _, _, _)
revokeEach(tk, idx, rest, revokedCount) ==
  IF rest = <<>> THEN [tokens |-> tk, index |-> idx, out |-> revokedCount]
  ELSE LET r == revoke(tk, idx, Head(rest))
       IN revokeEach(r.tokens, r.index, Tail(rest),
                     IF r.out THEN revokedCount + 1 ELSE revokedCount)

revokeAllForEmail(tk, idx, email) ==
  IF email \notin DOMAIN idx THEN [tokens |-> tk, index |-> idx, out |-> 0]
  ELSE revokeEach(tk, idx, idx[email], 0)

\* mutant: only the revoked records are deleted, the expired ones are kept
cleanupExpiredTokensRevokedOnly(tk, idx, t) ==
  [tokens |-> [k \in {j \in DOMAIN tk : tk[j].isValid} |-> tk[k]],
   index |-> idx,
   out |-> Cardinality({j \in DOMAIN tk : ~tk[j].isValid})]

RECURSIVE cleanupEach(_, _, _, _)
cleanupEach(tk, idx, entries, t) ==
  IF entries = {} THEN [tokens |-> tk, index |-> idx, out |-> TRUE]
  ELSE LET token == CHOOSE k \in entries : TRUE
           stored == tk[token]
       IN IF ~stored.isValid \/ isExpired(stored, t)
          THEN cleanupEach(MapDelete(tk, token),
                           removeFromIndex(idx, stored.email, token),
                           entries \ {token}, t)
          ELSE cleanupEach(tk, idx, entries \ {token}, t)

\* out is cleanedCount, the number the method logs
cleanupExpiredTokens(tk, idx, t) ==
  LET r == cleanupEach(tk, idx, DOMAIN tk, t)
  IN [tokens |-> r.tokens, index |-> r.index,
      out |-> Cardinality(DOMAIN tk) - Cardinality(DOMAIN r.tokens)]

----------------------------------------------------------------------------
(* The token store driven by its callers and by the clock                  *)

EmptyTokens == [k \in {} |-> NoRecord]
EmptyIndex == [k \in {} |-> <<>>]

TInit ==
  /\ tokens = EmptyTokens
  /\ emailToTokens = EmptyIndex
  /\ tres = NoCall

\* what a call leaves behind: the operation, its arguments, the clock it started
\* at, the record of its token as it found it, and the value it returned
TokenCall(op, token, email, r) ==
  [op |-> op, token |-> token, email |-> email, at |-> now,
   before |-> IF token \in DOMAIN tokens THEN tokens[token] ELSE NoRecord,
   known |-> token \in DOMAIN tokens,
   out |-> r.out]

Store(ids) ==
  \E token \in ids, email \in Emails :
    \E t2 \in Later(now) :
      LET r == store(tokens, emailToTokens, token, email, now, t2)
      IN /\ tokens' = r.tokens
         /\ emailToTokens' = r.index
         /\ tres' = TokenCall("store", token, email, r)
         /\ now' = t2

Retrieve ==
  \E token \in TokenIds :
    \E t2 \in Later(now) :
      LET r == retrieve(tokens, emailToTokens, token, now, t2)
      IN /\ tokens' = r.tokens
         /\ emailToTokens' = r.index
         /\ tres' = TokenCall("retrieve", token, "", r)
         /\ now' = t2

Revoke ==
  \E token \in TokenIds :
    LET r == revoke(tokens, emailToTokens, token)
    IN /\ tokens' = r.tokens
       /\ emailToTokens' = r.index
       /\ tres' = TokenCall("revoke", token, "", r)
       /\ UNCHANGED now

RevokeAllForEmail ==
  \E email \in Emails :
    LET r == revokeAllForEmail(tokens, emailToTokens, email)
    IN /\ tokens' = r.tokens
       /\ emailToTokens' = r.index
       /\ tres' = TokenCall("revokeAllForEmail", NoToken, email, r)
       /\ UNCHANGED now

CleanupExpiredTokens ==
  LET r == cleanupExpiredTokens(tokens, emailToTokens, now)
  IN /\ tokens' = r.tokens
     /\ emailToTokens' = r.index
     /\ tres' = TokenCall("cleanupExpiredTokens", NoToken, "", r)
     /\ UNCHANGED now

----------------------------------------------------------------------------
(* auth/token-generator.ts: class TokenGenerator                           *)
(* A character is a record: c is the character itself for a literal one;   *)
(* the i-th hex digit of a digest or of a random draw is the record that   *)
(* names the digest's input (or the draw) and i, its value left open.      *)

hexDigestLength == 64    \* the length of a sha256 digest written in hex
TOKEN_LENGTH == 32       \* TokenGenerator.TOKEN_LENGTH, in bytes
tokenSliceLength == 64   \* slice(0, 64)
MaxIssued == 2           \* most tokens generated in one run

Lit(s) == [i \in 1..Len(s) |-> [c |-> s[i], of |-> <<>>, i |-> 0]]

ISSUER == Lit(<<"t", "i", "c", "t", "a", "c", "t", "r", "i", "p", "-", "j", "u", "s",
                "t", "i", "f", "y", "-", "a", "p", "i">>)

DecimalDigits == <<"0", "1", "2", "3", "4", "5", "6", "7", "8", "9">>
Letters == {"a", "b", "c", "d", "e", "f", "g", "h", "i", "j", "k", "l", "m", "n", "o",
            "p", "q", "r", "s", "t", "u", "v", "w", "x", "y", "z",
            "A", "B", "C", "D", "E", "F", "G", "H", "I", "J", "K", "L", "M", "N", "O",
            "P", "Q", "R", "S", "T", "U", "V", "W", "X", "Y", "Z"}

\* Number.prototype.toString of a non-negative integer
RECURSIVE toString(_)
toString(n) ==
  IF n < 10 THEN Lit(<<DecimalDigits[n + 1]>>)
  ELSE toString(n \div 10) \o Lit(<<DecimalDigits[(n % 10) + 1]>>)

\* createHash('sha256').update(input).digest('hex')
sha256Hex(input) == [i \in 1..hexDigestLength |-> [c |-> "sha256", of |-> input, i |-> i]]

\* randomBytes(TOKEN_LENGTH).toString('hex'), for the draw named seed
randomHex(seed) == [i \in 1..(2 * TOKEN_LENGTH) |-> [c |-> "random", of |-> seed, i |-> i]]

\* [a-zA-Z0-9]: hex digits, decimal digits and letters
isAlphanumeric(ch) ==
  \/ ch.c \in {"sha256", "random"}
  \/ ch.c \in Range(DecimalDigits)
  \/ ch.c \in Letters

slice(s, from, to) == SubSeq(s, from + 1, IF to < Len(s) THEN to ELSE Len(s))

\* timestamp and seed: what Date.now() and randomBytes returned
generateSecureToken(email, timestamp, seed) ==
  LET randomData == randomHex(seed)
      emailHash == sha256Hex(email)
      baseData == emailHash \o Lit(<<":">>) \o toString(timestamp) \o Lit(<<":">>)
                    \o randomData
      signature == sha256Hex(baseData \o ISSUER)
  IN slice(SelectSeq(baseData \o Lit(<<":">>) \o signature, isAlphanumeric),
           0, tokenSliceLength)

\* mutant: the pattern without its end anchor, /^[a-zA-Z0-9]{64}/
validateTokenFormatPrefix(token) ==
  /\ Len(token) >= 64
  /\ \A i \in 1..64 : isAlphanumeric(token[i])

validateTokenFormat(token) ==
  /\ Len(token) = 64
  /\ \A i \in 1..Len(token) : isAlphanumeric(token[i])

IssueEmails == {Lit(<<"a", "@", "b", ".", "c", "o", "m">>), Lit(<<"c", "@", "d">>)}
Seeds == {Lit(<<"1">>), Lit(<<"2">>)}

IInit == issued = <<>>

\* one call of TokenGenerator.generateSecureToken
GenerateSecureToken ==
  \E email \in IssueEmails, seed \in Seeds :
    /\ Len(issued) < MaxIssued
    /\ issued' = Append(issued, [email |-> email, timestamp |-> now, seed |-> seed,
                                 token |-> generateSecureToken(email, now, seed)])

NoFormatCall == [called |-> FALSE, token |-> <<>>, out |-> FALSE]

FInit == fres = NoFormatCall

\* characters a caller may put into a token in place of, or after, one of its own
OtherChars == {"-", "\n", "Z"}

\* the strings handed to validateTokenFormat: the tokens generated so far, each
\* also shortened by one character, extended by one, and with one character
\* replaced; the empty string; a run of one character of any length near 64
FormatInputs ==
  {<<>>}
  \cup {[i \in 1..n |-> Lit(<<ch>>)[1]] : n \in 63..65, ch \in {"-", "Z"}}
  \cup UNION {
       {issued[k].token, SubSeq(issued[k].token, 1, Len(issued[k].token) - 1)}
       \cup {Append(issued[k].token, Lit(<<ch>>)[1]) : ch \in OtherChars}
       \cup {[issued[k].token EXCEPT ![i] = Lit(<<ch>>)[1]]
               : i \in {1, Len(issued[k].token)}, ch \in OtherChars}
       : k \in 1..Len(issued)}

\* one call of TokenGenerator.validateTokenFormat
ValidateTokenFormat ==
  \E token \in FormatInputs :
    fres' = [called |-> TRUE, token |-> token, out |-> validateTokenFormat(token)]

----------------------------------------------------------------------------
(* core/events.ts: EventBus                                                *)
(* A Set is a sequence without repetition, in insertion order. A handler   *)
(* is named after what its body does when it is invoked.                   *)

MaxRegistered == 3
MaxPending == 2

Events == {"e1", "e2"}
\* hReturns returns, hThrows throws, hAsync returns a promise, and hOff calls
\* off(event, offTarget) on the bus that invoked it
Handlers == {"hReturns", "hThrows", "hAsync", "hOff"}
offTarget == "hReturns"

NoEmit == [op |-> "none", event |-> "none", handler |-> "none",
           permanent |-> <<>>, once |-> <<>>, armed |-> {}]
BInit ==
  bus = [handlers |-> [e \in Events |-> <<>>],
         onceHandlers |-> [e \in Events |-> <<>>],
         armed |-> {}, calls |-> <<>>, last |-> NoEmit, pending |-> 0]

\* history: <<event, handler>> is in armed from its once() until the handler is
\* invoked from the one-time list, or off or its unsubscribe function is called
on(b, event, handler) ==
  [b EXCEPT !.handlers[event] = SetAdd(@, handler)]

once(b, event, handler) ==
  [b EXCEPT !.onceHandlers[event] = SetAdd(@, handler),
            !.armed = @ \cup {<<event, handler>>}]

\* the function once() returns
unsubscribe(b, event, handler) ==
  [b EXCEPT !.onceHandlers[event] = SetDelete(@, handler),
            !.armed = @ \ {<<event, handler>>}]

off(b, event, handler) ==
  [b EXCEPT !.handlers[event] = SetDelete(@, handler),
            !.onceHandlers[event] = SetDelete(@, handler),
            !.armed = @ \ {<<event, handler>>}]

\* handler(data) inside the try block: the call is logged, then the body runs
invoke(b, event, handler, oneTime) ==
  LET called == [b EXCEPT !.calls = Append(@, [handler |-> handler,
                                                once |-> oneTime,
                                                armed |-> <<event, handler>> \in b.armed]),
                          !.armed = IF oneTime THEN @ \ {<<event, handler>>} ELSE @]
  IN IF handler = "hOff" THEN off(called, event, offTarget) ELSE called

\* for (const handler of handlers): the iteration reads the Set as it is now
RECURSIVE runPermanent(_, _, _)
runPermanent(b, event, visited) ==
  LET rest == SelectSeq(b.handlers[event], LAMBDA h : h \notin visited)
  IN IF rest = <<>> THEN b
     ELSE runPermanent(invoke(b, event, rest[1], FALSE), event, visited \cup {rest[1]})

\* for (const handler of handlersToExecute): the iteration reads the copy
RECURSIVE runOnce(_, _, _)
runOnce(b, event, handlersToExecute) ==
  IF handlersToExecute = <<>> THEN b
  ELSE runOnce(invoke(b, event, handlersToExecute[1], TRUE), event,
               Tail(handlersToExecute))

\* emit without onceHandlers.clear()
emitKeepOnce(b, event) ==
  LET permanentRun == runPermanent([b EXCEPT !.calls = <<>>], event, {})
      handlersToExecute == permanentRun.onceHandlers[event]
      onceRun == runOnce(permanentRun, event, handlersToExecute)
      promises == SelectSeq(onceRun.calls, LAMBDA c : c.handler = "hAsync")
  IN [onceRun EXCEPT !.pending = IF Len(promises) > 0 THEN @ + 1 ELSE @]

\* emit up to its await: promises is not empty when hAsync was invoked
emit(b, event) ==
  LET permanentRun == runPermanent([b EXCEPT !.calls = <<>>], event, {})
      handlersToExecute == permanentRun.onceHandlers[event]
      cleared == [permanentRun EXCEPT !.onceHandlers[event] = <<>>]
      onceRun == runOnce(cleared, event, handlersToExecute)
      promises == SelectSeq(onceRun.calls, LAMBDA c : c.handler = "hAsync")
  IN [onceRun EXCEPT !.pending = IF Len(promises) > 0 THEN @ + 1 ELSE @]

registered(b) ==
  LET RECURSIVE total(_)
      total(S) == IF S = {} THEN 0
                  ELSE LET e == CHOOSE x \in S : TRUE
                       IN Len(b.handlers[e]) + Len(b.onceHandlers[e]) + total(S \ {e})
  IN total(Events)

Did(b, op, event, handler) ==
  [b EXCEPT !.calls = <<>>,
            !.last = [NoEmit EXCEPT !.op = op, !.event = event, !.handler = handler]]

On ==
  \E event \in Events, handler \in Handlers :
    /\ registered(on(bus, event, handler)) <= MaxRegistered
    /\ bus' = Did(on(bus, event, handler), "on", event, handler)

Once ==
  \E event \in Events, handler \in Handlers :
    /\ registered(once(bus, event, handler)) <= MaxRegistered
    /\ bus' = Did(once(bus, event, handler), "once", event, handler)

\* a call of the function once() returned for this event and handler; after emit
\* or off removed the registration it deletes nothing
Unsubscribe ==
  \E event \in Events, handler \in Handlers :
    bus' = Did(unsubscribe(bus, event, handler), "unsubscribe", event, handler)

Off ==
  \E event \in Events, handler \in Handlers :
    bus' = Did(off(bus, event, handler), "off", event, handler)

\* a call of emit, run to its await or, with no promise, to its end
Emit ==
  \E event \in Events :
    /\ bus.pending < MaxPending
    /\ bus' = [emit(bus, event) EXCEPT
                 !.last = [NoEmit EXCEPT !.op = "emit", !.event = event,
                                         !.permanent = bus.handlers[event],
                                         !.once = bus.onceHandlers[event],
                                         !.armed = {h \in Handlers :
                                                      <<event, h>> \in bus.armed}]]

\* Promise.allSettled resolves and one awaiting emit returns
Settle ==
  /\ bus.pending > 0
  /\ bus' = [bus EXCEPT !.pending = @ - 1]

AIdle == HInit /\ TInit /\ IInit /\ FInit /\ UInit /\ BInit

----------------------------------------------------------------------------
(* middleware/auth.ts: authenticateToken, run before the justify handler   *)
(* A token is named as the limiter and the store key it ("t1"); spell      *)
(* gives the characters the Authorization header carries for that name.    *)

BadToken == "t-"
HeaderTokens == {"", BadToken} \cup Tokens

\* the Authorization header: absent, of another scheme, or Bearer with a token
NoHeader == [present |-> FALSE, bearer |-> FALSE, token |-> ""]
Headers ==
  {NoHeader, [present |-> TRUE, bearer |-> FALSE, token |-> "t1"]}
  \cup {[present |-> TRUE, bearer |-> TRUE, token |-> k] : k \in HeaderTokens}

spell(token) ==
  IF token = "" THEN <<>>
  ELSE IF token = BadToken
  THEN [i \in 1..tokenSliceLength |-> Lit(<<IF i = tokenSliceLength THEN "-" ELSE "t">>)[1]]
  ELSE sha256Hex(Lit(<<token>>))

Unauthorized(tk, idx, message) ==
  [tokens |-> tk, index |-> idx, retrieved |-> FALSE, asked |-> "",
   tokenResult |-> Failure("not asked"), next |-> FALSE,
   status |-> 401, error |-> message, token |-> "", userEmail |-> ""]

\* t1, t2: the clock as retrieve reads it
authenticateToken(tk, idx, authHeader, t1, t2) ==
  LET token == IF authHeader.present /\ authHeader.bearer THEN authHeader.token
               ELSE NoToken
  IN IF token = NoToken \/ token = ""
     THEN Unauthorized(tk, idx, "Missing or invalid authorization header")
     ELSE IF ~validateTokenFormat(spell(token))
     THEN Unauthorized(tk, idx, "Invalid token format")
     ELSE LET tokenResult == retrieve(tk, idx, token, t1, t2)
          IN IF ~tokenResult.out.success
             THEN [Unauthorized(tokenResult.tokens, tokenResult.index,
                                "Invalid or expired token")
                     EXCEPT !.retrieved = TRUE, !.asked = token,
                            !.tokenResult = tokenResult.out]
             ELSE [tokens |-> tokenResult.tokens, index |-> tokenResult.index,
                   retrieved |-> TRUE, asked |-> token,
                   tokenResult |-> tokenResult.out,
                   next |-> TRUE, status |-> 0, error |-> "",
                   token |-> token, userEmail |-> tokenResult.out.data.email]

\* the requests the server receives, and the registry as two earlier
\* POST /api/token requests, one or none left it
AuthReqTexts == {<<>>, <<"a">>, <<"a", " ", "a", "\n", "a">>}

Registries ==
  LET none == [tokens |-> EmptyTokens, index |-> EmptyIndex]
      one == store(none.tokens, none.index, "t1", "e1", 0, 0)
      two == store(one.tokens, one.index, "t2", "e2", 0, 0)
  IN {none, [tokens |-> one.tokens, index |-> one.index],
      [tokens |-> two.tokens, index |-> two.index]}

RAuthInit ==
  reqs \in [Reqs -> {[pc |-> "arrived", header |-> h, token |-> "", text |-> t,
                      out |-> Failure("pending"), status |-> 0]
                     : h \in Headers, t \in AuthReqTexts}]

TAuthInit ==
  /\ \E reg \in Registries : tokens = reg.tokens /\ emailToTokens = reg.index
  /\ tres = NoCall

\* justifyRoutes.post('/justify', authenticateToken, justifyTextEndpoint): the
\* middleware answers 401 itself or hands the request on with req.token set
ReqAuth(r) ==
  /\ reqs[r].pc = "arrived"
  /\ \E t2 \in Later(now) :
       LET a == authenticateToken(tokens, emailToTokens, reqs[r].header, now, t2)
       IN /\ tokens' = a.tokens
          /\ emailToTokens' = a.index
          /\ now' = IF a.retrieved THEN t2 ELSE now
          /\ tres' = IF a.retrieved
                     THEN TokenCall("retrieve", a.asked, "", [out |-> a.tokenResult])
                     ELSE tres
          /\ reqs' = [reqs EXCEPT
               ![r].pc = IF a.next THEN "start" ELSE "done",
               ![r].token = a.token,
               ![r].out = IF a.next THEN @ ELSE Failure(a.error),
               ![r].status = a.status]
  /\ UNCHANGED <<usage, res>>

----------------------------------------------------------------------------
(* Specifications                                                          *)

\* one call of justifyText on every text and width within the bounds
InitJustify == JInit /\ LIdle /\ RIdle /\ AIdle
NextJustify == Justify /\ UNCHANGED <<usage, now, res, reqs, avars>>
SpecJustify == InitJustify /\ [][NextJustify]_vars

\* justifyText called on a text and then on its own output
NextRejustify ==
  \/ Justify /\ UNCHANGED <<usage, now, res, reqs, avars>>
  \/ JustifyAgain /\ UNCHANGED <<usage, now, res, reqs, avars>>
SpecRejustify == InitJustify /\ [][NextRejustify]_vars

\* the rate limiter under every sequence of checkLimit, recordUsage and
\* consumeWords calls and clock ticks
InitLimiter == JIdle /\ LInit /\ RIdle /\ AIdle
NextLimiter ==
  \/ Tick /\ UNCHANGED <<jvars, reqs, avars>>
  \/ CheckLimit /\ UNCHANGED <<jvars, reqs, avars>>
  \/ RecordUsage /\ UNCHANGED <<jvars, reqs, avars>>
  \/ ConsumeWords /\ UNCHANGED <<jvars, reqs, avars>>
SpecLimiter == InitLimiter /\ [][NextLimiter]_vars

\* the same with the administrative operations: getUsageStats, resetUsage and
\* the periodic cleanup
NextLimiterAdmin ==
  \/ NextLimiter
  \/ GetUsageStats /\ UNCHANGED <<jvars, reqs, avars>>
  \/ ResetUsage /\ UNCHANGED <<jvars, reqs, avars>>
  \/ CleanupOldRecords /\ UNCHANGED <<jvars, reqs, avars>>
SpecLimiterAdmin == InitLimiter /\ [][NextLimiterAdmin]_vars

\* the limiter used through consumeWords only: no direct recordUsage
NextLimiterChecked ==
  \/ Tick /\ UNCHANGED <<jvars, reqs, avars>>
  \/ CheckLimit /\ UNCHANGED <<jvars, reqs, avars>>
  \/ ConsumeWords /\ UNCHANGED <<jvars, reqs, avars>>
  \/ ResetUsage /\ UNCHANGED <<jvars, reqs, avars>>
  \/ CleanupOldRecords /\ UNCHANGED <<jvars, reqs, avars>>
SpecLimiterChecked == InitLimiter /\ [][NextLimiterChecked]_vars

\* the limiter beside a limiter that serves the same calls and is never swept;
\* usage is recorded by recordUsage
NextSweep ==
  \/ Tick /\ UNCHANGED <<jvars, reqs, avars>>
  \/ CheckLimitBoth /\ UNCHANGED <<jvars, reqs, hist, tvars, ivars, bus>>
  \/ RecordUsageBoth /\ UNCHANGED <<jvars, reqs, hist, tvars, ivars, bus>>
  \/ GetUsageStatsBoth /\ UNCHANGED <<jvars, reqs, hist, tvars, ivars, bus>>
  \/ ResetUsageBoth /\ UNCHANGED <<jvars, reqs, hist, tvars, ivars, bus>>
  \/ CleanupOldRecordsOnce /\ UNCHANGED <<jvars, reqs, hist, tvars, ivars, bus>>
SpecSweep == InitLimiter /\ [][NextSweep]_vars

\* the event bus: registrations, removals and emits in any order, an emit
\* that awaits its promises staying in flight while other calls run
InitEvents == JIdle /\ LIdle /\ RIdle /\ AIdle
NextEvents ==
  \/ On /\ UNCHANGED <<jvars, lvars, reqs, hist, tvars, ivars, unswept>>
  \/ Once /\ UNCHANGED <<jvars, lvars, reqs, hist, tvars, ivars, unswept>>
  \/ Unsubscribe /\ UNCHANGED <<jvars, lvars, reqs, hist, tvars, ivars, unswept>>
  \/ Off /\ UNCHANGED <<jvars, lvars, reqs, hist, tvars, ivars, unswept>>
  \/ Emit /\ UNCHANGED <<jvars, lvars, reqs, hist, tvars, ivars, unswept>>
  \/ Settle /\ UNCHANGED <<jvars, lvars, reqs, hist, tvars, ivars, unswept>>
SpecEvents == InitEvents /\ [][NextEvents]_vars

\* concurrent justify requests sharing the module-level rate limiter
InitRequests == JIdle /\ LInit /\ RInit /\ AIdle
NextRequests ==
  \/ Tick /\ UNCHANGED <<jvars, reqs, avars>>
  \/ \E r \in Reqs : ReqCheck(r) /\ UNCHANGED <<jvars, avars>>
  \/ \E r \in Reqs : ReqRecord(r) /\ UNCHANGED <<jvars, avars>>
  \/ \E r \in Reqs : ReqRespond(r) /\ UNCHANGED <<jvars, avars>>
SpecRequests == InitRequests /\ [][NextRequests]_vars

\* justify requests from their arrival at the middleware on
InitAuthRequests ==
  JIdle /\ LInit /\ RAuthInit /\ HInit /\ TAuthInit /\ IInit /\ FInit /\ UInit /\ BInit
NextAuthRequests ==
  \/ Tick /\ UNCHANGED <<jvars, reqs, avars>>
  \/ \E r \in Reqs : ReqAuth(r) /\ UNCHANGED <<jvars, hist, ivars, ovars>>
  \/ \E r \in Reqs : ReqCheck(r) /\ UNCHANGED <<jvars, avars>>
  \/ \E r \in Reqs : ReqRecord(r) /\ UNCHANGED <<jvars, avars>>
  \/ \E r \in Reqs : ReqRespond(r) /\ UNCHANGED <<jvars, avars>>
SpecAuthRequests == InitAuthRequests /\ [][NextAuthRequests]_vars

\* successive consumeWords calls and clock ticks
NextConsume ==
  \/ Tick /\ UNCHANGED <<jvars, reqs, avars>>
  \/ ConsumeWordsInSequence /\ UNCHANGED <<jvars, reqs, tvars, ivars, ovars>>
SpecConsume == InitLimiter /\ [][NextConsume]_vars

\* the token store under every sequence of store, retrieve, revoke,
\* revokeAllForEmail and cleanupExpiredTokens calls and clock ticks
InitTokens == JIdle /\ LIdle /\ RIdle /\ AIdle
NextTokens ==
  \/ Tick /\ UNCHANGED <<jvars, reqs, avars>>
  \/ Store(TokenIds) /\ UNCHANGED <<jvars, usage, res, reqs, hist, ivars, ovars>>
  \/ Retrieve /\ UNCHANGED <<jvars, usage, res, reqs, hist, ivars, ovars>>
  \/ Revoke /\ UNCHANGED <<jvars, usage, res, reqs, hist, ivars, ovars>>
  \/ RevokeAllForEmail /\ UNCHANGED <<jvars, usage, res, reqs, hist, ivars, ovars>>
  \/ CleanupExpiredTokens /\ UNCHANGED <<jvars, usage, res, reqs, hist, ivars, ovars>>
SpecTokens == InitTokens /\ [][NextTokens]_vars

\* successive store calls, with more tokens than one email may hold
NextStore ==
  \/ Tick /\ UNCHANGED <<jvars, reqs, avars>>
  \/ Store(ManyTokenIds) /\ UNCHANGED <<jvars, usage, res, reqs, hist, ivars, ovars>>
SpecStore == InitTokens /\ [][NextStore]_vars

\* successive calls of generateSecureToken
NextIssue ==
  \/ Tick /\ UNCHANGED <<jvars, reqs, avars>>
  \/ GenerateSecureToken
       /\ UNCHANGED <<jvars, usage, now, res, reqs, hist, tvars, fres, ovars>>
SpecIssue == InitTokens /\ [][NextIssue]_vars

\* calls of generateSecureToken and of validateTokenFormat, the clock standing
\* at any one time
InitFormat ==
  /\ JIdle /\ RIdle /\ AIdle
  /\ usage = EmptyUsage /\ res = NoCall
  /\ now \in Times
NextFormat ==
  \/ GenerateSecureToken
       /\ UNCHANGED <<jvars, usage, now, res, reqs, hist, tvars, fres, ovars>>
  \/ ValidateTokenFormat
       /\ UNCHANGED <<jvars, usage, now, res, reqs, hist, tvars, issued, ovars>>
SpecFormat == InitFormat /\ [][NextFormat]_vars

----------------------------------------------------------------------------
(* Reading a text or an output back, independently of the code's tokenizer *)

\* the length of the run of non-whitespace characters that starts s
RECURSIVE wordPrefix(_)
wordPrefix(s) == IF s = <<>> \/ IsSpace(Head(s)) THEN 0 ELSE 1 + wordPrefix(Tail(s))

\* the words of s: its maximal runs of non-whitespace characters, in order
RECURSIVE WordsIn(_)
WordsIn(s) ==
  IF s = <<>> THEN <<>>
  ELSE IF IsSpace(Head(s)) THEN WordsIn(Tail(s))
  ELSE LET n == wordPrefix(s)
       IN <<SubSeq(s, 1, n)>> \o WordsIn(SubSeq(s, n + 1, Len(s)))

RECURSIVE Flatten(_)
Flatten(ss) == IF ss = <<>> THEN <<>> ELSE Head(ss) \o Flatten(Tail(ss))

\* the length of the words joined by single spaces
NaturalLength(ws) == IF ws = <<>> THEN 0 ELSE SumLen(ws) + Len(ws) - 1

Done == jpc = "done"
OutLines == splitLines(result.value)
InputWords == WordsIn(text)
NoLongWord == \A i \in 1..Len(InputWords) : Len(InputWords[i]) <= lineWidth

\* line is left-aligned: its words separated by single spaces from column 1,
\* followed by spaces only, up to max(width, natural length)
LeftAligned(line, w) ==
  LET nat == NaturalLength(WordsIn(line))
  IN /\ Len(line) = Max(w, nat)
     /\ \A j \in 1..nat :
          line[j] = " " => j > 1 /\ j < nat /\ line[j - 1] # " " /\ line[j + 1] # " "
     /\ \A j \in (nat + 1)..Len(line) : line[j] = " "

----------------------------------------------------------------------------
(* Claims about justifyText, checked under SpecJustify                     *)

\* C1: when no word of the input is longer than the width, every line of the
\* output but the last is exactly width characters long.
C1_WidthInvariant ==
  (Done /\ NoLongWord) =>
    /\ result.kind = "ok"
    /\ \A i \in 1..(Len(OutLines) - 1) : Len(OutLines[i]) = lineWidth

\* C1 witness: a non-last line of three words that needed uneven extra spacing
C1_Witness ==
  /\ Done /\ NoLongWord
  /\ \E i \in 1..(Len(OutLines) - 1) :
       /\ Len(WordsIn(OutLines[i])) >= 3
       /\ (Len(OutLines[i]) - NaturalLength(WordsIn(OutLines[i]))) % 2 = 1

\* C2: the words of the output, read line by line, are exactly the words of the
\* input in the same order, also when a word is longer than the width.
C2_WordPreservation ==
  Done =>
    /\ result.kind = "ok"
    /\ Flatten([i \in 1..Len(OutLines) |-> WordsIn(OutLines[i])]) = InputWords

\* C2 witness: several lines, one of them a word longer than the width
C2_Witness ==
  /\ Done /\ ~NoLongWord /\ lineWidth > 0
  /\ Len(OutLines) >= 3
  /\ Len(InputWords) >= 3

C4_SingleLineFullyJustified ==
  (Done /\ Len(InputWords) >= 2 /\ NaturalLength(InputWords) <= lineWidth) =>
    /\ result.kind = "ok"
    /\ Len(OutLines) = 1
    /\ Len(result.value) = lineWidth
    /\ result.value[Len(result.value)] # " "

\* C5: an empty or whitespace-only text gives the empty string, for every
\* positive width.
C5_EmptyTextEmptyOutput ==
  (Done /\ lineWidth > 0 /\ InputWords = <<>>) =>
    result.kind = "ok" /\ result.value = <<>>

\* C6: a width of zero or less makes the call fail and produce no output.
C6_InvalidWidthFails ==
  (Done /\ lineWidth <= 0) => result.kind = "error"

\* the words of output line i
LineWords(i) == WordsIn(OutLines[i])

\* C32: every output line of two or more words has natural length at most the
\* width, and no line but the last could take the first word of the next line
\* after one space without exceeding the width.
C32_GreedyMaximal ==
  Done =>
    /\ result.kind = "ok"
    /\ \A i \in 1..Len(OutLines) :
         /\ Len(LineWords(i)) >= 2 => NaturalLength(LineWords(i)) <= lineWidth
         /\ i < Len(OutLines) =>
              /\ Len(LineWords(i)) >= 1 /\ Len(LineWords(i + 1)) >= 1
              /\ NaturalLength(LineWords(i)) + 1 + Len(LineWords(i + 1)[1]) > lineWidth

\* C32 witness: a line of two words that fill the width exactly, followed by
\* another line
C32_Witness ==
  /\ Done /\ lineWidth > 0
  /\ \E i \in 1..(Len(OutLines) - 1) :
       /\ Len(LineWords(i)) = 2
       /\ NaturalLength(LineWords(i)) = lineWidth

\* the length of the run of spaces s starts with
RECURSIVE spacePrefix(_)
spacePrefix(s) ==
  IF s = <<>> \/ Head(s) # " " THEN 0 ELSE 1 + spacePrefix(Tail(s))

\* the sizes of the gaps of a line: its runs of spaces that a word follows, from
\* left to right
RECURSIVE GapsOf(_)
GapsOf(s) ==
  IF s = <<>> THEN <<>>
  ELSE IF Head(s) # " " THEN GapsOf(Tail(s))
  ELSE LET n == spacePrefix(s)
           rest == SubSeq(s, n + 1, Len(s))
       IN (IF rest = <<>> THEN <<>> ELSE <<n>>) \o GapsOf(rest)

\* C33: in every line but the last that holds two or more words, with
\* totalSpaces = width - sum of the word lengths, every gap has
\* floor(totalSpaces / gaps) spaces and the leftmost (totalSpaces mod gaps) gaps
\* one more: the gaps are at least 1, differ by at most one and never grow from
\* left to right.
C33_GapDistribution ==
  Done =>
    \A i \in 1..(Len(OutLines) - 1) :
      Len(LineWords(i)) >= 2 =>
        LET gaps == Len(LineWords(i)) - 1
            totalSpaces == lineWidth - SumLen(LineWords(i))
            g == GapsOf(OutLines[i])
        IN /\ Len(g) = gaps
           /\ \A j \in 1..gaps :
                /\ g[j] = (totalSpaces \div gaps)
                            + (IF j <= totalSpaces % gaps THEN 1 ELSE 0)
                /\ g[j] >= 1
                /\ g[1] - g[j] \in {0, 1}
                /\ j < gaps => g[j] >= g[j + 1]

\* C33 witness: a justified line of three words whose left gap is one wider
\* than its right gap
C33_Witness ==
  /\ Done
  /\ \E i \in 1..(Len(OutLines) - 1) : GapsOf(OutLines[i]) = <<2, 1>>

\* C34, checked under SpecRejustify: for every text and positive width,
\* justifying the output of justifyText again returns that output unchanged,
\* with the same words on the same lines.
C34_Idempotent ==
  (jpc = "again" /\ lineWidth > 0) =>
    /\ result.kind = "ok"
    /\ result.value = text
    /\ [i \in 1..Len(OutLines) |-> LineWords(i)]
         = [i \in 1..Len(splitLines(text)) |-> WordsIn(splitLines(text)[i])]

\* C34 witness: the output justified again had several lines and a gap of more
\* than one space
C34_Witness ==
  /\ jpc = "again" /\ lineWidth > 0
  /\ Len(OutLines) >= 2
  /\ \E j \in 1..Len(GapsOf(OutLines[1])) : GapsOf(OutLines[1])[j] >= 2

----------------------------------------------------------------------------
(* Claims about the rate limiter, checked under SpecLimiter                *)

\* the positions of the samples of a list that are inside the window at time t
InWindow(records, t) ==
  {i \in 1..Len(records) : records[i].timestamp > t - windowSizeMs}

\* the positions of the samples that are a full window old, or older, at time t
Expired(records, t) ==
  {i \in 1..Len(records) : t >= records[i].timestamp + windowSizeMs}

RECURSIVE SumAt(_, _)
SumAt(records, idx) ==
  IF idx = {} THEN 0
  ELSE LET i == CHOOSE i \in idx : TRUE
       IN records[i].wordCount + SumAt(records, idx \ {i})

\* the words a token has used inside the window at time t
UsageAt(u, token, t) ==
  SumAt(recordsOf(u, token), InWindow(recordsOf(u, token), t))

C8_FailedConsumeRecordsNothing ==
  (res.op = "consumeWords"
     /\ UsageAt(res.before, res.token, res.at) + res.wordCount > dailyLimit) =>
    /\ ~res.out.success
    /\ usage = res.before

\* C8 witness: a consumeWords was refused on a token that has in-window usage
C8_Witness ==
  /\ res.op = "consumeWords" /\ ~res.out.success
  /\ UsageAt(res.before, res.token, res.at) > 0
  /\ UsageAt(res.before, res.token, res.at) <= dailyLimit

\* C9: at every moment, the usage computed for a token counts exactly the
\* samples with timestamp > now - windowSize, which is to say none of the
\* samples recorded at T with now >= T + windowSize.
C9_WindowExpiry ==
  \A token \in DOMAIN usage :
    LET recs == usage[token]
        stats == getUsageStats(usage, token, now).out
        all == 1..Len(recs)
    IN /\ stats.recordCount = Cardinality(InWindow(recs, now))
       /\ stats.totalWords = SumAt(recs, InWindow(recs, now))
       /\ stats.totalWords = SumAt(recs, all \ Expired(recs, now))
       /\ getValidRecords(usage, token, now)
            = SelectSeq(recs, LAMBDA r : ~(now >= r.timestamp + windowSizeMs))

\* C9 witness: a check found a token with a sample exactly one window old, which
\* it did not count, and a younger one, which it did
C9_Witness ==
  /\ res.op = "checkLimit" /\ res.at = now /\ res.out.success
  /\ \E i, j \in 1..Len(recordsOf(usage, res.token)) :
       /\ usage[res.token][i].timestamp = now - windowSizeMs
       /\ usage[res.token][i].wordCount > 0
       /\ usage[res.token][j].timestamp > now - windowSizeMs
       /\ res.out.data.currentUsage = usage[res.token][j].wordCount
       /\ res.out.data.currentUsage > 0

\* C11: a checkLimit whose request does not fit in the budget returns a value
\* (not an exception) that carries allowed = false together with
\* remainingWords = dailyLimit - currentUsage.
C11_DeniedCheckCarriesAllowedFalse ==
  (res.op = "checkLimit"
     /\ UsageAt(res.before, res.token, res.at) + res.wordCount > dailyLimit) =>
    /\ "data" \in DOMAIN res.out
    /\ res.out.data.allowed = FALSE
    /\ res.out.data.remainingWords
         = dailyLimit - UsageAt(res.before, res.token, res.at)

\* the reset time a checkLimit reported, in its data or in its refusal
ReportedResetAt == IF res.out.success THEN res.out.data.resetAt ELSE res.out.error.resetAt

\* the least timestamp among the samples of recs that are inside the window at t
OldestInWindow(recs, t) ==
  CHOOSE ts \in {recs[i].timestamp : i \in InWindow(recs, t)} :
    \A i \in InWindow(recs, t) : ts <= recs[i].timestamp

\* C12: the resetAt that checkLimit reports is the timestamp of the oldest
\* sample inside the window plus windowSize, or now plus windowSize when the
\* token has no sample inside the window.
C12_ResetAt ==
  res.op = "checkLimit" =>
    LET recs == recordsOf(res.before, res.token)
    IN ReportedResetAt = IF InWindow(recs, res.at) = {} THEN res.at + windowSizeMs
                         ELSE OldestInWindow(recs, res.at) + windowSizeMs

\* C12 witness: a check on a token whose oldest sample has left the window and
\* whose younger sample has not: the reset time follows the younger one
C12_Witness ==
  /\ res.op = "checkLimit"
  /\ Len(recordsOf(res.before, res.token)) >= 2
  /\ Expired(res.before[res.token], res.at) # {}
  /\ InWindow(res.before[res.token], res.at) # {}
  /\ ReportedResetAt # res.at + windowSizeMs
  /\ ReportedResetAt # res.before[res.token][1].timestamp + windowSizeMs

\* C14 as stated: a successful consumeWords(token, n) reports currentUsage =
\* the usage before the call + n and remainingWords = dailyLimit - that.
C14_UsageBeforePlusN ==
  (res.op = "consumeWords" /\ res.out.success) =>
    /\ res.out.data.currentUsage
         = UsageAt(res.before, res.token, res.at) + res.wordCount
    /\ res.out.data.remainingWords = dailyLimit - res.out.data.currentUsage

\* C14: a successful consumeWords(token, n) reports the state recomputed after
\* the recording: currentUsage = the words of the earlier samples that are
\* still inside the window when the second check reads the clock, + n, and
\* remainingWords = dailyLimit - that.
C14_RecomputedAfterRecording ==
  (res.op = "consumeWords" /\ res.out.success) =>
    /\ res.out.data.currentUsage
         = UsageAt(res.before, res.token, res.t3) + res.wordCount
    /\ res.out.data.remainingWords = dailyLimit - res.out.data.currentUsage
    /\ res.out.data.currentUsage = UsageAt(usage, res.token, res.t3)

\* C14 witness: a successful consumeWords during which an earlier sample left
\* the window
C14_Witness ==
  /\ res.op = "consumeWords" /\ res.out.success /\ res.wordCount > 0
  /\ UsageAt(res.before, res.token, res.t3) < UsageAt(res.before, res.token, res.at)

BlankTexts == UNION {[1..n -> Whitespace] : n \in 0..3}

\* C15 as stated: the word count of an empty or whitespace-only text is 0, and
\* checkLimit(token, 0) is allowed in every reachable state of the limiter.
C15_ZeroWordsAlwaysAllowed ==
  /\ \A t \in BlankTexts : wordCountOf(t) = 0
  /\ \A token \in Tokens : checkLimit(usage, token, 0, now).out.success

\* C15: the word count of an empty or whitespace-only text is 0, and
\* checkLimit(token, 0) is allowed exactly when the words recorded for the
\* token inside the window do not exceed dailyLimit.
C15_ZeroWordsAllowedWithinLimit ==
  /\ \A t \in BlankTexts : wordCountOf(t) = 0
  /\ \A token \in Tokens :
       checkLimit(usage, token, 0, now).out.success
         <=> UsageAt(usage, token, now) <= dailyLimit
  /\ (res.op = "checkLimit" /\ res.wordCount = 0) =>
       (res.out.success <=> UsageAt(res.before, res.token, res.at) <= dailyLimit)

\* C15 witness: a check of 0 words was refused on a token whose recorded usage
\* is above the limit
C15_Witness ==
  /\ res.op = "checkLimit" /\ res.wordCount = 0 /\ ~res.out.success
  /\ UsageAt(res.before, res.token, res.at) > dailyLimit

\* C35: recordUsage(token, wordCount) always succeeds and appends exactly one
\* sample (wordCount, now) to the token, whatever the token has used, leaving
\* every other token as it was.
C35_RecordUsageAppends ==
  res.op = "recordUsage" =>
    /\ res.out.success
    /\ DOMAIN usage = DOMAIN res.before \cup {res.token}
    /\ Len(usage[res.token]) = Len(recordsOf(res.before, res.token)) + 1
    /\ SubSeq(usage[res.token], 1, Len(usage[res.token]) - 1)
         = recordsOf(res.before, res.token)
    /\ usage[res.token][Len(usage[res.token])].wordCount = res.wordCount
    /\ usage[res.token][Len(usage[res.token])].timestamp = res.at
    /\ \A token \in DOMAIN usage \ {res.token} : usage[token] = res.before[token]

\* C35 witness: a recordUsage with no check before it took the in-window usage
\* of its token above dailyLimit
C35_Witness ==
  /\ res.op = "recordUsage"
  /\ UsageAt(res.before, res.token, res.at) <= dailyLimit
  /\ UsageAt(usage, res.token, res.at) > dailyLimit

\* C37, checked under SpecLimiterChecked: when usage is recorded through
\* consumeWords only, the words of every token inside the window never exceed
\* dailyLimit.
C37_NeverOverLimit ==
  \A token \in Tokens : UsageAt(usage, token, now) <= dailyLimit

\* C37 witness: a token that has used dailyLimit words in two samples was
\* refused a further word by consumeWords
C37_Witness ==
  /\ res.op = "consumeWords" /\ ~res.out.success /\ res.wordCount > 0
  /\ Len(recordsOf(usage, res.token)) = 2
  /\ UsageAt(usage, res.token, now) = dailyLimit

\* C39: when checkLimit reported resetAt = R for a token with samples inside
\* the window and nothing was recorded since, then from time R on the oldest of
\* those samples is no longer counted; and a token that was refused is allowed
\* any request of at most dailyLimit words from windowSize after the refusal on.
C39_ResetAtHonoured ==
  LET recs == recordsOf(usage, res.token)
  IN (res.op = "checkLimit" /\ InWindow(recs, res.at) # {}) =>
       /\ now >= ReportedResetAt =>
            /\ \A i \in InWindow(recs, res.at) :
                 recs[i].timestamp = OldestInWindow(recs, res.at)
                   => i \notin InWindow(recs, now)
            /\ getUsageStats(usage, res.token, now).out.totalWords
                 = UsageAt(usage, res.token, now)
            /\ getUsageStats(usage, res.token, now).out.oldestRecord
                 # OldestInWindow(recs, res.at)
       /\ (~res.out.success /\ now >= res.at + windowSizeMs) =>
            \A n \in 0..dailyLimit :
              LET c == checkLimit(usage, res.token, n, now).out
              IN c.success /\ c.data.allowed /\ c.data.currentUsage = 0

\* C39 witness: a token refused for quota, a full window later
C39_Witness ==
  /\ res.op = "checkLimit" /\ ~res.out.success
  /\ now = res.at + windowSizeMs
  /\ now > ReportedResetAt

----------------------------------------------------------------------------
(* Claims about the administrative operations of the limiter, checked      *)
(* under SpecLimiterAdmin                                                  *)

\* C27: right after cleanupOldRecords, every token holds exactly the samples
\* it had with timestamp > now - windowSize, in their order, no stored sample
\* has timestamp <= now - windowSize, and no token maps to an empty list.
C27_SweepKeepsTheWindow ==
  res.op = "cleanupOldRecords" =>
    /\ \A token \in DOMAIN usage :
         /\ usage[token] # <<>>
         /\ \A i \in 1..Len(usage[token]) :
              ~(usage[token][i].timestamp <= res.at - windowSizeMs)
    /\ DOMAIN usage \subseteq DOMAIN res.before
    /\ \A token \in DOMAIN res.before :
         recordsOf(usage, token)
           = SelectSeq(res.before[token],
                       LAMBDA r : ~(r.timestamp <= res.at - windowSizeMs))

\* C27 witness: a sweep dropped the older sample of a token and kept the
\* younger one
C27_Witness ==
  /\ res.op = "cleanupOldRecords"
  /\ \E token \in DOMAIN usage :
       /\ Len(res.before[token]) = 2
       /\ Len(usage[token]) = 1
       /\ usage[token][1] = res.before[token][2]

\* C28: right after resetUsage(token) the token has no sample, checkLimit on it
\* reports currentUsage = 0 and remainingWords = dailyLimit for every word
\* count, and the samples of every other token are as they were.
C28_ResetUsage ==
  res.op = "resetUsage" =>
    /\ res.token \notin DOMAIN usage
    /\ res.out = (res.token \in DOMAIN res.before)
    /\ \A n \in WordCounts :
         LET c == checkLimit(usage, res.token, n, now).out
         IN /\ c.success
            /\ c.data.currentUsage = 0
            /\ c.data.remainingWords = dailyLimit
    /\ DOMAIN usage = DOMAIN res.before \ {res.token}
    /\ \A token \in DOMAIN usage : usage[token] = res.before[token]

\* C28 witness: the usage of a token that had samples was reset while another
\* token had samples too
C28_Witness ==
  /\ res.op = "resetUsage" /\ res.out = TRUE
  /\ sumWords(res.before[res.token]) > 0
  /\ \E token \in DOMAIN usage : sumWords(usage[token]) > 0

\* C38, checked under SpecSweep: whatever cleanups ran earlier, checkLimit and
\* getUsageStats return what they return on a limiter that served the same
\* calls and was never swept, and so would every checkLimit and getUsageStats
\* made now, for every token and word count.
C38_SweepIsTransparent ==
  /\ res.op \in {"checkLimit", "getUsageStats"}
       => res.out = unswept.out
  /\ \A token \in Tokens :
       /\ getUsageStats(usage, token, now).out
            = getUsageStats(unswept.usage, token, now).out
       /\ \A n \in WordCounts :
            checkLimit(usage, token, n, now).out
              = checkLimit(unswept.usage, token, n, now).out

\* C38 witness: a checkLimit on a token that lost a sample to a cleanup and
\* has recorded another since
C38_Witness ==
  /\ res.op = "checkLimit"
  /\ Len(recordsOf(usage, res.token)) >= 1
  /\ Len(recordsOf(unswept.usage, res.token)) > Len(recordsOf(usage, res.token))

----------------------------------------------------------------------------
(* Claims about successive consumeWords calls, checked under SpecConsume   *)

\* no sample of the token that was inside the window at ta is outside it at tb
NoSampleLeft(u, token, ta, tb) ==
  InWindow(recordsOf(u, token), ta) \subseteq InWindow(recordsOf(u, token), tb)

\* C13: when a consumeWords on a token succeeds after an earlier successful
\* one and no sample of the token has left the window in between, the
\* remainingWords it returns is not greater than the one returned before.
C13_RemainingNonIncreasing ==
  [][\A token \in Tokens :
       (/\ hist'[token] # hist[token]
        /\ hist[token].calls > 0
        /\ NoSampleLeft(usage, token, hist[token].t3, res'.t3))
         => res'.out.data.remainingWords <= hist[token].remainingWords]_vars

\* C13 witness: a second successful consumeWords on a token, all of whose
\* samples are still inside the window, returned less than the first
C13_Witness ==
  \E token \in Tokens :
    /\ hist[token].calls >= 2
    /\ res.op = "consumeWords" /\ res.token = token /\ res.out.success
    /\ Expired(usage[token], res.t3) = {}
    /\ hist[token].remainingWords < hist[token].prevRemaining
    /\ hist[token].prevRemaining < dailyLimit

----------------------------------------------------------------------------
(* Claims about concurrent justify requests, checked under SpecRequests    *)

\* C10: whatever the interleaving of the requests on one token, the words
\* recorded for the token inside the window never exceed dailyLimit.
C10_NoOveruse ==
  \A token \in Tokens : UsageAt(usage, token, now) <= dailyLimit

----------------------------------------------------------------------------
(* Claims about the token generator, checked under SpecIssue and           *)
(* SpecFormat                                                              *)

\* C16: two tokens generated for the same email are distinct.
C16_DistinctTokens ==
  \A i, j \in 1..Len(issued) :
    (i # j /\ issued[i].email = issued[j].email) => issued[i].token # issued[j].token

\* a character of [A-Za-z0-9]: a literal letter or digit, or a hex digit of a
\* digest or of a random draw
OverAlphabet(ch) ==
  \/ ch.i > 0
  \/ ch.c \in {"0", "1", "2", "3", "4", "5", "6", "7", "8", "9",
               "a", "b", "c", "d", "e", "f", "g", "h", "i", "j", "k", "l", "m",
               "n", "o", "p", "q", "r", "s", "t", "u", "v", "w", "x", "y", "z",
               "A", "B", "C", "D", "E", "F", "G", "H", "I", "J", "K", "L", "M",
               "N", "O", "P", "Q", "R", "S", "T", "U", "V", "W", "X", "Y", "Z"}

\* C29: every generated token has exactly 64 characters, all of [A-Za-z0-9], and
\* validateTokenFormat accepts it; validateTokenFormat answers true exactly for
\* the strings of 64 characters of [A-Za-z0-9].
C29_TokenFormat ==
  /\ \A k \in 1..Len(issued) :
       /\ Len(issued[k].token) = 64
       /\ \A i \in 1..Len(issued[k].token) : OverAlphabet(issued[k].token[i])
  /\ (fres.called /\ \E k \in 1..Len(issued) : fres.token = issued[k].token)
       => fres.out
  /\ fres.called =>
       (fres.out <=> /\ Len(fres.token) = 64
                     /\ \A i \in 1..Len(fres.token) : OverAlphabet(fres.token[i]))

\* C29 witness: a generated token was handed to validateTokenFormat and accepted
C29_Witness ==
  /\ fres.called /\ fres.out
  /\ \E k \in 1..Len(issued) : fres.token = issued[k].token

----------------------------------------------------------------------------
(* Claims about the token store, checked under SpecTokens and SpecStore    *)

\* C17 as stated: retrieve(token) succeeds exactly when the token has a record
\* that is valid and whose age is less than the TTL.
C17_UsableBeforeTTL ==
  tres.op = "retrieve" =>
    (tres.out.success <=>
       /\ tres.known
       /\ tres.before.isValid
       /\ tres.at - tres.before.createdAt < tokenTTL)

\* C17: retrieve(token) succeeds exactly when the token has a record that is
\* valid and whose age is at most the TTL: a token older than the TTL is
\* rejected, a token whose age equals the TTL is still accepted.
C17_UsableWithinTTL ==
  tres.op = "retrieve" =>
    (tres.out.success <=>
       /\ tres.known
       /\ tres.before.isValid
       /\ tres.at - tres.before.createdAt <= tokenTTL)

\* C17 witness: a retrieve succeeded on a token whose age was exactly the TTL
C17_Witness ==
  /\ tres.op = "retrieve" /\ tres.out.success
  /\ tres.at - tres.before.createdAt = tokenTTL

C19_RevokedIsTerminal ==
  [][\A token \in TokenIds :
       (token \in DOMAIN tokens /\ ~tokens[token].isValid)
         => ~retrieve(tokens', emailToTokens', token, now', now').out.success]_vars

\* the tokens of an email that are indexed under it, valid and not expired
LiveTokens(email) ==
  {token \in DOMAIN tokens :
     /\ tokens[token].email = email
     /\ tokens[token].isValid
     /\ ~isExpired(tokens[token], now)
     /\ email \in DOMAIN emailToTokens
     /\ token \in Range(emailToTokens[email])}

\* C20: no email ever has more than maxTokensPerEmail live tokens.
C20_AtMostMaxTokens ==
  \A email \in Emails : Cardinality(LiveTokens(email)) <= maxTokensPerEmail

\* C21: when store(token, email) is called with a new token while the email
\* already has maxTokensPerEmail live tokens, exactly one of them is evicted,
\* it is one with the earliest creation time, the new token is then accepted
\* by retrieve, and the records of the other emails are unchanged.
C21_EvictsTheOldest ==
  [][\A email \in Emails :
       (/\ tres'.op = "store" /\ tres'.email = email
        /\ tres'.token \notin DOMAIN tokens
        /\ tokens' # tokens
        /\ Cardinality(LiveTokens(email)) = maxTokensPerEmail)
         => LET evicted == {k \in LiveTokens(email) : ~tokens'[k].isValid}
            IN /\ Cardinality(evicted) = 1
               /\ \A k \in evicted : \A j \in LiveTokens(email) :
                    tokens[k].createdAt <= tokens[j].createdAt
               /\ retrieve(tokens', emailToTokens', tres'.token, now', now').out.success
               /\ \A k \in DOMAIN tokens :
                    tokens[k].email # email => tokens'[k] = tokens[k]]_vars

\* the tokens listed under an email in the index
Listed(email) ==
  IF email \in DOMAIN emailToTokens THEN Range(emailToTokens[email]) ELSE {}

C23_NoEmptyIndexEntry ==
  \A email \in DOMAIN emailToTokens : Len(emailToTokens[email]) > 0

\* C23 witness: the last listed token of an email was found expired by a
\* retrieve, and the email has no entry any more
C23_Witness ==
  /\ tres.op = "retrieve" /\ ~tres.out.success
  /\ tres.out.error = "Token has expired"
  /\ tres.before.email \notin DOMAIN emailToTokens
  /\ DOMAIN emailToTokens # {}

\* C24: the revoke of a known valid token returns true and leaves it rejected
\* by retrieve; the revoke of an unknown token or of an already revoked one
\* returns false and leaves the record of the token as it was.
C24_RevokeReturnsWhetherChanged ==
  tres.op = "revoke" =>
    /\ (tres.known /\ tres.before.isValid)
         => /\ tres.out = TRUE
            /\ ~retrieve(tokens, emailToTokens, tres.token, now, now).out.success
    /\ ~tres.known => (tres.out = FALSE /\ tres.token \notin DOMAIN tokens)
    /\ (tres.known /\ ~tres.before.isValid)
         => (tres.out = FALSE /\ tokens[tres.token] = tres.before)

\* C25: after revokeAllForEmail(email) every token that was live for the
\* email is rejected by retrieve, the email has no index entry, and the
\* records of the other emails are unchanged; the value returned is the
\* number of tokens revoked.
C25_RevokeAll ==
  [][\A email \in Emails :
       (tres'.op = "revokeAllForEmail" /\ tres'.email = email /\ now' = now)
         => /\ \A k \in LiveTokens(email) :
                 ~retrieve(tokens', emailToTokens', k, now', now').out.success
            /\ email \notin DOMAIN emailToTokens'
            /\ \A k \in DOMAIN tokens :
                 tokens[k].email # email => tokens'[k] = tokens[k]
            /\ tres'.out = Cardinality({k \in DOMAIN tokens :
                                          tokens[k].isValid /\ ~tokens'[k].isValid})]_vars

C36_CreationIsFixed ==
  [][\A k \in DOMAIN tokens \cap DOMAIN tokens' :
       /\ tokens'[k].createdAt = tokens[k].createdAt
       /\ tokens'[k].email = tokens[k].email]_vars

----------------------------------------------------------------------------
(* Claims about the justify requests from the middleware on, checked       *)
(* under SpecAuthRequests                                                  *)

QuotaFailure(out) == ~out.success /\ out.error = "Rate limit exceeded"

AuthFailure(out) ==
  /\ ~out.success
  /\ out.error \in {"Missing or invalid authorization header",
                    "Invalid token format", "Invalid or expired token"}

ValidationFailure(out) ==
  /\ ~out.success
  /\ out.error \in {"Request body must be plain text", "Text is required",
                    "Text cannot be empty", "Text too long"}

\* C30: an authenticated request with a valid text whose words, added to the
\* token's in-window usage, exceed dailyLimit is refused with the quota failure,
\* which carries the usage, the limit and the reset time, keeps it to the end
\* and is answered 402; a request is answered 402 only for a quota failure, a
\* request stopped by the middleware is answered 401 and a validation failure
\* is answered 400.
C30_QuotaFailureIs402 ==
  [][\A r \in Reqs :
       /\ (/\ reqs[r].pc = "start" /\ reqs'[r].pc = "checked"
           /\ reqs[r].text # <<>>
           /\ UsageAt(usage, reqs[r].token, now) + Len(WordsIn(reqs[r].text))
                > dailyLimit)
            => /\ QuotaFailure(reqs'[r].out)
               /\ reqs'[r].out.detail.currentUsage = UsageAt(usage, reqs[r].token, now)
               /\ reqs'[r].out.detail.dailyLimit = dailyLimit
               /\ reqs'[r].out.detail.resetAt
                    = OldestInWindow(recordsOf(usage, reqs[r].token), now) + windowSizeMs
       /\ (reqs[r].pc = "start" /\ reqs'[r].pc = "checked" /\ reqs[r].text = <<>>)
            => ValidationFailure(reqs'[r].out)
       /\ (reqs[r].pc = "checked" /\ reqs'[r].pc = "recorded" /\ ~reqs[r].out.success)
            => reqs'[r].out = reqs[r].out
       /\ (reqs[r].pc = "recorded" /\ reqs'[r].pc = "done")
            => /\ reqs'[r].out = reqs[r].out
               /\ QuotaFailure(reqs[r].out) => reqs'[r].status = 402
               /\ reqs'[r].status = 402
                    => /\ QuotaFailure(reqs[r].out)
                       /\ reqs[r].out.detail.dailyLimit = dailyLimit
                       /\ reqs[r].out.detail.currentUsage >= 0
                       /\ reqs[r].out.detail.resetAt > 0
               /\ ValidationFailure(reqs[r].out) => reqs'[r].status = 400
               /\ reqs'[r].status # 401
       /\ (reqs[r].pc = "arrived" /\ reqs'[r].pc = "done")
            => /\ reqs'[r].status = 401
               /\ AuthFailure(reqs'[r].out)
       /\ (reqs[r].pc = "arrived" /\ reqs'[r].pc = "start")
            => /\ reqs[r].header.bearer
               /\ reqs'[r].token = reqs[r].header.token
               /\ reqs'[r].token \in DOMAIN tokens
               /\ tokens[reqs'[r].token].isValid
  ]_vars

\* C30 witness: an authenticated request was refused by the limit check and
\* answered 402 after another request of the same token had been answered 200
C30_Witness ==
  \E r, q \in Reqs :
    /\ reqs[r].pc = "done" /\ reqs[r].status = 402
    /\ reqs[r].out.detail.requested > 0
    /\ reqs[q].pc = "done" /\ reqs[q].status = 200
    /\ reqs[q].token = reqs[r].token


\* the request that moved in a step, if one did
Moved(r, from, to) == reqs[r].pc = from /\ reqs'[r].pc = to

\* C31: the usage records change only in the step in which a request that
\* passed the middleware, the text validation and the limit check is justified
\* and recorded; that step appends one sample, the word count of the request's
\* text at the time of the step, to the request's token and touches nothing
\* else; a request takes that step at most once, and a request that failed at an
\* earlier step leaves the usage records as they were.
C31_RecordOnSuccessOnly ==
  [][/\ usage' # usage =>
          \E r \in Reqs :
            /\ Moved(r, "checked", "recorded")
            /\ reqs[r].out.success
            /\ reqs[r].header.bearer /\ reqs[r].header.token = reqs[r].token
            /\ reqs[r].text # <<>>
            /\ ~justifyThrows(reqs[r].text, justifyWidth)
            /\ usage' = [k \in DOMAIN usage \cup {reqs[r].token} |->
                           IF k = reqs[r].token
                           THEN Append(recordsOf(usage, k),
                                       [wordCount |-> Len(WordsIn(reqs[r].text)),
                                        timestamp |-> now,
                                        resetAt |-> now + windowSizeMs])
                           ELSE usage[k]]
     /\ \A r \in Reqs :
          /\ (Moved(r, "checked", "recorded") /\ reqs[r].out.success)
               => /\ Len(recordsOf(usage', reqs[r].token))
                       = Len(recordsOf(usage, reqs[r].token)) + 1
                  /\ reqs'[r].out.success
                       => reqs'[r].out.data.justifiedText
                            = justifyText(reqs[r].text, justifyWidth)
          /\ (Moved(r, "checked", "recorded") /\ ~reqs[r].out.success)
               => usage' = usage
          /\ reqs'[r].pc = "checked" => reqs[r].pc \in {"start", "checked"}
          /\ reqs[r].pc \in {"recorded", "done"}
               => reqs'[r].pc \in {"recorded", "done"}
  ]_vars

\* C31 witness: a request was answered 200 and left the one sample of its token,
\* and another request on that token, refused by the limit check, left none
C31_Witness ==
  \E r, q \in Reqs :
    /\ reqs[r].pc = "done" /\ reqs[r].status = 200
    /\ reqs[q].pc = "done" /\ reqs[q].status = 402
    /\ reqs[q].token = reqs[r].token
    /\ Len(recordsOf(usage, reqs[r].token)) = 1
    /\ usage[reqs[r].token][1].wordCount = Len(WordsIn(reqs[r].text))

----------------------------------------------------------------------------
(* Claims about the event bus                                              *)

InvokedBy(handler, oneTime) ==
  \E i \in 1..Len(bus.calls) :
    bus.calls[i].handler = handler /\ bus.calls[i].once = oneTime

\* what a permanent handler of the last emit removed with off while it ran
OffByPermanent == IF InvokedBy("hOff", FALSE) THEN {offTarget} ELSE {}

OffDuringEmitStillRuns ==
  \E i \in 1..Len(bus.calls) : bus.calls[i].once /\ ~bus.calls[i].armed

====
